---- MODULE Spec2Model ----
(***************************************************************************)
(* The alert watcher of the blue/green nginx failover set-up               *)
(* (src/watcher.py): FailoverDetector, ErrorRateMonitor, AlertHandler and  *)
(* LogProcessor.process_line, as a state machine.                          *)
(*                                                                         *)
(* Time is the value of time.time().  The code only ever subtracts two     *)
(* readings and compares the difference with ALERT_COOLDOWN_SEC; readings  *)
(* are integers here (the subtraction of two doubles that close together   *)
(* is exact).  The clock starts at StartTime = ALERT_COOLDOWN_SEC: wall    *)
(* clock time is far beyond one cooldown after the epoch, so the initial   *)
(* last_alert_time of 0 never suppresses anything.                         *)
(*                                                                         *)
(* The error rate is a Python float: (error_count / len) * 100 is two      *)
(* correctly rounded IEEE-754 double operations, modelled bit for bit.     *)
(***************************************************************************)
EXTENDS Integers, Sequences, FiniteSets, TLC

\* ------------------------------------------------------------------ bounds
MaxTime == 5        \* the clock runs from StartTime to MaxTime
MaxAppended == 5    \* recorded calls of add_request in one run
MaxObserved == 4    \* recorded calls of detect_failover in one run
MaxDelay == 1       \* clock advance between two readings within one line
MaxLines == 3       \* lines written to the log in one run
MaxInodes == 2      \* files created at the log's path in one run
MaxShrinks == 1     \* truncations of the log in one run
RecursionLimit == 3 \* the interpreter's limit on nested calls (1000 by default)

\* ------------------------------------------------- IEEE-754 double arithmetic
\* A positive double is [m |-> its 53 mantissa bits, most significant first,
\* e |-> the exponent of the last bit]: the value is m * 2^e.  Zero has m = <<>>.
MantissaBits == 53

Min(a, b) == IF a <= b THEN a ELSE b

RECURSIVE IntBits(_)
IntBits(n) == IF n = 0 THEN <<>> ELSE Append(IntBits(n \div 2), n % 2)

Zeros(k) == [i \in 1..k |-> 0]

\* bits + 1
IncBits(b) ==
  LET zeros == {i \in DOMAIN b : b[i] = 0}
  IN IF zeros = {} THEN <<1>> \o Zeros(Len(b))
     ELSE LET last == CHOOSE i \in zeros : \A j \in zeros : j <= i
          IN SubSeq(b, 1, last - 1) \o <<1>> \o Zeros(Len(b) - last)

AnyOne(b) == \E i \in DOMAIN b : b[i] = 1

FZero == [m |-> <<>>, e |-> 0]

\* Round to nearest, ties to even: the double nearest to bits * 2^e (plus a
\* non-zero rest below the last bit when sticky).
RoundBits(bits, e, sticky) ==
  IF bits = <<>> THEN FZero
  ELSE IF Len(bits) <= MantissaBits
    THEN [m |-> bits \o Zeros(MantissaBits - Len(bits)),
          e |-> e - (MantissaBits - Len(bits))]
  ELSE LET keep  == SubSeq(bits, 1, MantissaBits)
           guard == bits[MantissaBits + 1]
           rest  == SubSeq(bits, MantissaBits + 2, Len(bits))
           drop  == Len(bits) - MantissaBits
           up    == guard = 1 /\ (sticky \/ AnyOne(rest) \/ keep[MantissaBits] = 1)
           inc   == IF up THEN IncBits(keep) ELSE keep
       IN IF Len(inc) > MantissaBits
            THEN [m |-> SubSeq(inc, 1, MantissaBits), e |-> e + drop + 1]
            ELSE [m |-> inc, e |-> e + drop]

\* float(n) of a non-negative integer
FromInt(n) == RoundBits(IntBits(n), 0, FALSE)

RECURSIVE ScaleUp(_, _, _)
ScaleUp(a, b, k) == IF a >= b THEN <<a, k>> ELSE ScaleUp(2 * a, b, k + 1)

\* 2^i mod b, by repeated squaring
RECURSIVE Pow2Mod(_, _)
Pow2Mod(i, b) ==
  IF i = 0 THEN 1 % b
  ELSE IF i % 2 = 1 THEN (2 * Pow2Mod(i - 1, b)) % b
  ELSE (Pow2Mod(i \div 2, b) * Pow2Mod(i \div 2, b)) % b

\* The first k bits of the binary expansion of s / b, for b <= s < 2b: the
\* leading 1 and the k - 1 bits after the point (bit j after the point is
\* floor(2 * ((s * 2^(j-1)) mod b) / b)).
DivBits(s, b, k) ==
  [i \in 1..k |-> IF i = 1 THEN 1 ELSE (2 * ((s * Pow2Mod(i - 2, b)) % b)) \div b]

\* a / b (Python true division of integers, correctly rounded), 0 <= a <= b, b > 0
FDiv(a, b) ==
  IF a = 0 THEN FZero
  ELSE LET s == ScaleUp(a, b, 0)
       IN RoundBits(DivBits(s[1], b, MantissaBits + 1), 0 - s[2] - MantissaBits,
                    (s[1] * Pow2Mod(MantissaBits, b)) % b # 0)

\* Multiplication of a bit string by a small integer, in limbs of LimbBits bits
\* counted from the least significant end.
LimbBits == 11
Limbs(m) == (Len(m) + LimbBits - 1) \div LimbBits
LimbWidth(m, k) == Min(LimbBits, Len(m) - LimbBits * k)

RECURSIVE BitsToInt(_)
BitsToInt(b) == IF b = <<>> THEN 0 ELSE 2 * BitsToInt(SubSeq(b, 1, Len(b) - 1)) + b[Len(b)]

Limb(m, k) ==
  BitsToInt(SubSeq(m, Len(m) - LimbBits * k - LimbWidth(m, k) + 1, Len(m) - LimbBits * k))

\* the carry into limb k of m * c
RECURSIVE Carry(_, _, _)
Carry(m, c, k) ==
  IF k = 0 THEN 0
  ELSE (Limb(m, k - 1) * c + Carry(m, c, k - 1)) \div (2 ^ LimbWidth(m, k - 1))

PadBits(n, w) == Zeros(w - Len(IntBits(n))) \o IntBits(n)

\* the bits of limbs k and below of m * c
RECURSIVE ProductBits(_, _, _)
ProductBits(m, c, k) ==
  LET digit == (Limb(m, k) * c + Carry(m, c, k)) % (2 ^ LimbWidth(m, k))
  IN IF k = 0 THEN PadBits(digit, LimbWidth(m, k))
     ELSE PadBits(digit, LimbWidth(m, k)) \o ProductBits(m, c, k - 1)

\* f * c for a double f and a small positive integer c
FMulInt(f, c) ==
  IF f.m = <<>> THEN FZero
  ELSE RoundBits(IntBits(Carry(f.m, c, Limbs(f.m))) \o ProductBits(f.m, c, Limbs(f.m) - 1),
                 f.e, FALSE)

\* x >= y for two bit strings of one length
BitsGe(x, y) ==
  LET differ == {i \in DOMAIN x : x[i] # y[i]}
  IN \/ differ = {}
     \/ LET first == CHOOSE i \in differ : \A j \in differ : i <= j
        IN x[first] > y[first]

\* f >= g
FGe(f, g) ==
  IF g.m = <<>> THEN TRUE
  ELSE IF f.m = <<>> THEN FALSE
  ELSE IF f.e # g.e THEN f.e > g.e
  ELSE BitsGe(f.m, g.m)

\* ------------------------------------------------------------ configuration
None == "None"
Pools == {"blue", "green"}
NoStatus == -1
\* The globals of lines 24-29 are read from the environment when the module is
\* loaded.  ALERT_COOLDOWN_SEC (300 unless the environment sets it) is run at 2
\* clock units; WINDOW_SIZE and ERROR_RATE_THRESHOLD are variables, set by the
\* initial state to one of the configurations below.  WINDOW_SIZE is at least 1.
ALERT_COOLDOWN_SEC == 2
StartTime == ALERT_COOLDOWN_SEC
\* ACTIVE_POOL, as the environment sets it by default; only line 398 reads it
ACTIVE_POOL == "blue"

\* <<WINDOW_SIZE, ERROR_RATE_THRESHOLD>> as the environment may set them
SmallConfigs == {<<2, 50>>, <<3, 34>>}
DefaultConfig == <<200, 2>>
ThresholdConfigs == {DefaultConfig, <<200, 29>>, <<50, 58>>}
WindowSizes == {c[1] : c \in SmallConfigs \cup ThresholdConfigs}

VARIABLES
  now,                  \* time.time()
  env_maintenance,      \* the MAINTENANCE_MODE setting of the environment, as it is now
  MAINTENANCE_MODE,     \* the module global, read from the environment at load
  SLACK_WEBHOOK_URL,    \* the module global: "" or a URL
  WINDOW_SIZE,          \* the module global
  ERROR_RATE_THRESHOLD, \* the module global: a float with an integer value
  failover_detector,    \* [last_pool, last_alert_time, initialized]
  error_monitor,        \* [request_window, last_alert_time, alert_active]
  alert_handler,        \* [last_alert_times]
  calls,                \* the method calls of the last step, in order
  appended,             \* the flags of the recorded add_request calls, in order
  observed,             \* the pools of the recorded detect_failover calls, in order
  events,               \* the events those calls returned: <<index, from, to>>
  fired,                \* the times at which should_alert returned true, in order
  delivered,            \* per alert type, the times of the successful notifier calls
  log,                  \* the files that are or were at LOG_FILE
  tailer,               \* LogProcessor's reading: where it is, last_position, the open file
  passed                \* the strings the tailer has passed to process_line, in order

config == <<MAINTENANCE_MODE, SLACK_WEBHOOK_URL, WINDOW_SIZE, ERROR_RATE_THRESHOLD>>
objects == <<failover_detector, error_monitor, alert_handler>>
ghosts == <<appended, observed, events, fired, delivered>>
tailvars == <<log, tailer, passed>>
vars == <<now, env_maintenance, config, objects, calls, ghosts, tailvars>>

AlertTypes == {"failover", "error_rate"}
Url == "https://hooks.slack.com/services/T"
EmptyDict == [k \in {} |-> 0]

\* ---------------------------------------------------------- FailoverDetector
FailoverDetector_init == [last_pool |-> None, last_alert_time |-> 0, initialized |-> FALSE]

is_valid_pool(pool) == pool # "" /\ pool # None /\ pool \in {"blue", "green"}

NoEvent == <<FALSE, None, None>>

\* the first observation is reported as a failover
detect_failover_first_event(self, current_pool, current_time) ==
  IF MAINTENANCE_MODE \/ ~is_valid_pool(current_pool) THEN [self |-> self, ret |-> NoEvent]
  ELSE IF ~self.initialized \/ (self.last_pool # None /\ self.last_pool # current_pool)
    THEN IF current_time - self.last_alert_time < ALERT_COOLDOWN_SEC
           THEN [self |-> [self EXCEPT !.last_pool = current_pool, !.initialized = TRUE],
                 ret |-> NoEvent]
           ELSE [self |-> [self EXCEPT !.last_pool = current_pool, !.initialized = TRUE,
                                       !.last_alert_time = current_time],
                 ret |-> <<TRUE, self.last_pool, current_pool>>]
  ELSE [self |-> [self EXCEPT !.last_pool = current_pool], ret |-> NoEvent]

\* last_pool is updated before from_pool is read
detect_failover_stale_from(self, current_pool, current_time) ==
  IF MAINTENANCE_MODE \/ ~is_valid_pool(current_pool) THEN [self |-> self, ret |-> NoEvent]
  ELSE IF ~self.initialized
    THEN [self |-> [self EXCEPT !.last_pool = current_pool, !.initialized = TRUE],
          ret |-> NoEvent]
  ELSE IF self.last_pool # None /\ self.last_pool # current_pool
    THEN IF current_time - self.last_alert_time < ALERT_COOLDOWN_SEC
           THEN [self |-> [self EXCEPT !.last_pool = current_pool], ret |-> NoEvent]
           ELSE [self |-> [self EXCEPT !.last_pool = current_pool,
                                       !.last_alert_time = current_time],
                 ret |-> <<TRUE, current_pool, current_pool>>]
  ELSE [self |-> [self EXCEPT !.last_pool = current_pool], ret |-> NoEvent]

\* a change suppressed by the cooldown restarts the cooldown
detect_failover_extend_cooldown(self, current_pool, current_time) ==
  IF MAINTENANCE_MODE \/ ~is_valid_pool(current_pool) THEN [self |-> self, ret |-> NoEvent]
  ELSE IF ~self.initialized
    THEN [self |-> [self EXCEPT !.last_pool = current_pool, !.initialized = TRUE],
          ret |-> NoEvent]
  ELSE IF self.last_pool # None /\ self.last_pool # current_pool
    THEN IF current_time - self.last_alert_time < ALERT_COOLDOWN_SEC
           THEN [self |-> [self EXCEPT !.last_pool = current_pool,
                                       !.last_alert_time = current_time],
                 ret |-> NoEvent]
           ELSE [self |-> [self EXCEPT !.last_pool = current_pool,
                                       !.last_alert_time = current_time],
                 ret |-> <<TRUE, self.last_pool, current_pool>>]
  ELSE [self |-> [self EXCEPT !.last_pool = current_pool], ret |-> NoEvent]

\* a change suppressed by the cooldown leaves last_pool as it was
detect_failover_suppressed_keeps_pool(self, current_pool, current_time) ==
  IF MAINTENANCE_MODE \/ ~is_valid_pool(current_pool) THEN [self |-> self, ret |-> NoEvent]
  ELSE IF ~self.initialized
    THEN [self |-> [self EXCEPT !.last_pool = current_pool, !.initialized = TRUE],
          ret |-> NoEvent]
  ELSE IF self.last_pool # None /\ self.last_pool # current_pool
    THEN IF current_time - self.last_alert_time < ALERT_COOLDOWN_SEC
           THEN [self |-> self, ret |-> NoEvent]
           ELSE [self |-> [self EXCEPT !.last_pool = current_pool,
                                       !.last_alert_time = current_time],
                 ret |-> <<TRUE, self.last_pool, current_pool>>]
  ELSE [self |-> [self EXCEPT !.last_pool = current_pool], ret |-> NoEvent]

\* the comparison with last_pool left out of the change test
detect_failover_no_comparison(self, current_pool, current_time) ==
  IF MAINTENANCE_MODE \/ ~is_valid_pool(current_pool) THEN [self |-> self, ret |-> NoEvent]
  ELSE IF ~self.initialized
    THEN [self |-> [self EXCEPT !.last_pool = current_pool, !.initialized = TRUE],
          ret |-> NoEvent]
  ELSE IF self.last_pool # None
    THEN IF current_time - self.last_alert_time < ALERT_COOLDOWN_SEC
           THEN [self |-> [self EXCEPT !.last_pool = current_pool], ret |-> NoEvent]
           ELSE [self |-> [self EXCEPT !.last_pool = current_pool,
                                       !.last_alert_time = current_time],
                 ret |-> <<TRUE, self.last_pool, current_pool>>]
  ELSE [self |-> [self EXCEPT !.last_pool = current_pool], ret |-> NoEvent]

detect_failover(self, current_pool, current_time) ==
  IF MAINTENANCE_MODE THEN [self |-> self, ret |-> NoEvent]
  ELSE IF ~is_valid_pool(current_pool) THEN [self |-> self, ret |-> NoEvent]
  ELSE IF ~self.initialized
    THEN [self |-> [self EXCEPT !.last_pool = current_pool, !.initialized = TRUE],
          ret |-> NoEvent]
  ELSE IF self.last_pool # None /\ self.last_pool # current_pool
    THEN IF current_time - self.last_alert_time < ALERT_COOLDOWN_SEC
           THEN [self |-> [self EXCEPT !.last_pool = current_pool], ret |-> NoEvent]
           ELSE [self |-> [self EXCEPT !.last_pool = current_pool,
                                       !.last_alert_time = current_time],
                 ret |-> <<TRUE, self.last_pool, current_pool>>]
  ELSE [self |-> [self EXCEPT !.last_pool = current_pool], ret |-> NoEvent]

\* ---------------------------------------------------------- ErrorRateMonitor
ErrorRateMonitor_init == [request_window |-> <<>>, last_alert_time |-> 0, alert_active |-> FALSE]

\* int(upstream_status): the strings that parse, with their values
IntStrings == {"200", "404", "499", "500", "502"}
int(s) == CASE s = "200" -> 200 [] s = "404" -> 404 [] s = "499" -> 499
            [] s = "500" -> 500 [] s = "502" -> 502

\* > for >= on the upstream code: an upstream 500 is not counted
is_error_upstream_above_500(status_code, upstream_status) ==
  \/ status_code >= 500
  \/ /\ upstream_status # None /\ upstream_status # "" /\ upstream_status # "-"
     /\ IF upstream_status \in IntStrings
          THEN int(upstream_status) > 500
          ELSE upstream_status \in {"timeout", "error"}

is_error(status_code, upstream_status) ==
  \/ status_code >= 500
  \/ /\ upstream_status # None /\ upstream_status # "" /\ upstream_status # "-"
     /\ IF upstream_status \in IntStrings
          THEN int(upstream_status) >= 500
          ELSE upstream_status \in {"timeout", "error"}

\* pop() for pop(0): the newest flag is dropped instead of the oldest
add_request_pop_last(self, status_code, upstream_status) ==
  LET window == Append(self.request_window, is_error(status_code, upstream_status))
  IN [self EXCEPT !.request_window =
        IF Len(window) > WINDOW_SIZE THEN SubSeq(window, 1, Len(window) - 1) ELSE window]

add_request(self, status_code, upstream_status) ==
  LET window == Append(self.request_window, is_error(status_code, upstream_status))
  IN [self EXCEPT !.request_window =
        IF Len(window) > WINDOW_SIZE THEN Tail(window) ELSE window]

\* sum(self.request_window): the number of True flags
sum(window) == Cardinality({i \in DOMAIN window : window[i]})

\* (error_count / len(self.request_window)) * 100
error_rate(error_count, n) == FMulInt(FDiv(error_count, n), 100)

\* error_rate over the window sizes of the configurations, computed once
ErrorRateTable == [n \in WindowSizes |-> [k \in 0..n |-> error_rate(k, n)]]

ThresholdTable == [c \in SmallConfigs \cup ThresholdConfigs |-> FromInt(c[2])]

rate_reached(self) ==
  FGe(ErrorRateTable[Len(self.request_window)][sum(self.request_window)],
      ThresholdTable[<<WINDOW_SIZE, ERROR_RATE_THRESHOLD>>])

\* the cooldown check left out
should_alert_no_cooldown(self, current_time) ==
  IF MAINTENANCE_MODE THEN [self |-> self, ret |-> FALSE]
  ELSE IF Len(self.request_window) < WINDOW_SIZE THEN [self |-> self, ret |-> FALSE]
  ELSE IF rate_reached(self)
    THEN [self |-> [self EXCEPT !.last_alert_time = current_time, !.alert_active = TRUE],
          ret |-> TRUE]
  ELSE [self |-> [self EXCEPT !.alert_active = FALSE], ret |-> FALSE]

\* the warm-up guard left out: a partly filled window is rated as it is
should_alert_no_warmup(self, current_time) ==
  IF MAINTENANCE_MODE THEN [self |-> self, ret |-> FALSE]
  ELSE IF Len(self.request_window) = 0 THEN [self |-> self, ret |-> FALSE]
  ELSE IF current_time - self.last_alert_time < ALERT_COOLDOWN_SEC
    THEN [self |-> self, ret |-> FALSE]
  ELSE IF FGe(error_rate(sum(self.request_window), Len(self.request_window)),
              FromInt(ERROR_RATE_THRESHOLD))
    THEN [self |-> [self EXCEPT !.last_alert_time = current_time, !.alert_active = TRUE],
          ret |-> TRUE]
  ELSE [self |-> [self EXCEPT !.alert_active = FALSE], ret |-> FALSE]

\* <= for < in the cooldown check: the instant t0 + ALERT_COOLDOWN_SEC is held back
should_alert_strict_cooldown(self, current_time) ==
  IF MAINTENANCE_MODE THEN [self |-> self, ret |-> FALSE]
  ELSE IF Len(self.request_window) < WINDOW_SIZE THEN [self |-> self, ret |-> FALSE]
  ELSE IF current_time - self.last_alert_time <= ALERT_COOLDOWN_SEC
    THEN [self |-> self, ret |-> FALSE]
  ELSE IF rate_reached(self)
    THEN [self |-> [self EXCEPT !.last_alert_time = current_time, !.alert_active = TRUE],
          ret |-> TRUE]
  ELSE [self |-> [self EXCEPT !.alert_active = FALSE], ret |-> FALSE]

should_alert(self, current_time) ==
  IF MAINTENANCE_MODE THEN [self |-> self, ret |-> FALSE]
  ELSE IF Len(self.request_window) < WINDOW_SIZE THEN [self |-> self, ret |-> FALSE]
  ELSE IF current_time - self.last_alert_time < ALERT_COOLDOWN_SEC
    THEN [self |-> self, ret |-> FALSE]
  ELSE IF rate_reached(self)
    THEN [self |-> [self EXCEPT !.last_alert_time = current_time, !.alert_active = TRUE],
          ret |-> TRUE]
  ELSE [self |-> [self EXCEPT !.alert_active = FALSE], ret |-> FALSE]

\* -------------------------------------------------------------- AlertHandler
AlertHandler_init == [last_alert_times |-> EmptyDict]

\* What requests.post does: a 200 response, another response, or an exception
\* (a connection error, the 10 s timeout).
Responses == {"200", "500", "exception"}

\* d[key] = value on a dict
dict_set(d, key, value) ==
  [k \in DOMAIN d \cup {key} |-> IF k = key THEN value ELSE d[k]]

\* the maintenance check left out
send_slack_alert_no_maintenance(self, alert_type, current_time, response) ==
  IF SLACK_WEBHOOK_URL = "" THEN [self |-> self, ret |-> FALSE, posted |-> FALSE]
  ELSE IF /\ alert_type \in DOMAIN self.last_alert_times
          /\ current_time - self.last_alert_times[alert_type] < ALERT_COOLDOWN_SEC
    THEN [self |-> self, ret |-> FALSE, posted |-> FALSE]
  ELSE IF response = "200"
    THEN [self |-> [self EXCEPT !.last_alert_times = dict_set(@, alert_type, current_time)],
          ret |-> TRUE, posted |-> TRUE]
  ELSE [self |-> self, ret |-> FALSE, posted |-> TRUE]

\* the timestamp recorded before the post instead of after a 200
send_slack_alert_record_first(self, alert_type, current_time, response) ==
  IF SLACK_WEBHOOK_URL = "" THEN [self |-> self, ret |-> FALSE, posted |-> FALSE]
  ELSE IF MAINTENANCE_MODE THEN [self |-> self, ret |-> FALSE, posted |-> FALSE]
  ELSE IF /\ alert_type \in DOMAIN self.last_alert_times
          /\ current_time - self.last_alert_times[alert_type] < ALERT_COOLDOWN_SEC
    THEN [self |-> self, ret |-> FALSE, posted |-> FALSE]
  ELSE [self |-> [self EXCEPT !.last_alert_times = dict_set(@, alert_type, current_time)],
        ret |-> response = "200", posted |-> TRUE]

\* one cooldown for all types: a timestamp of any type holds the send back
send_slack_alert_shared_cooldown(self, alert_type, current_time, response) ==
  IF SLACK_WEBHOOK_URL = "" THEN [self |-> self, ret |-> FALSE, posted |-> FALSE]
  ELSE IF MAINTENANCE_MODE THEN [self |-> self, ret |-> FALSE, posted |-> FALSE]
  ELSE IF \E k \in DOMAIN self.last_alert_times :
            current_time - self.last_alert_times[k] < ALERT_COOLDOWN_SEC
    THEN [self |-> self, ret |-> FALSE, posted |-> FALSE]
  ELSE IF response = "200"
    THEN [self |-> [self EXCEPT !.last_alert_times = dict_set(@, alert_type, current_time)],
          ret |-> TRUE, posted |-> TRUE]
  ELSE [self |-> self, ret |-> FALSE, posted |-> TRUE]

\* the dispatcher's own cooldown check left out
send_slack_alert_no_cooldown(self, alert_type, current_time, response) ==
  IF SLACK_WEBHOOK_URL = "" THEN [self |-> self, ret |-> FALSE, posted |-> FALSE]
  ELSE IF MAINTENANCE_MODE THEN [self |-> self, ret |-> FALSE, posted |-> FALSE]
  ELSE IF response = "200"
    THEN [self |-> [self EXCEPT !.last_alert_times = dict_set(@, alert_type, current_time)],
          ret |-> TRUE, posted |-> TRUE]
  ELSE [self |-> self, ret |-> FALSE, posted |-> TRUE]

\* posted: whether requests.post was called
send_slack_alert(self, alert_type, current_time, response) ==
  IF SLACK_WEBHOOK_URL = "" THEN [self |-> self, ret |-> FALSE, posted |-> FALSE]
  ELSE IF MAINTENANCE_MODE THEN [self |-> self, ret |-> FALSE, posted |-> FALSE]
  ELSE IF /\ alert_type \in DOMAIN self.last_alert_times
          /\ current_time - self.last_alert_times[alert_type] < ALERT_COOLDOWN_SEC
    THEN [self |-> self, ret |-> FALSE, posted |-> FALSE]
  ELSE IF response = "200"
    THEN [self |-> [self EXCEPT !.last_alert_times = dict_set(@, alert_type, current_time)],
          ret |-> TRUE, posted |-> TRUE]
  ELSE [self |-> self, ret |-> FALSE, posted |-> TRUE]

send_failover_alert(self, from_pool, to_pool, current_time, response) ==
  send_slack_alert(self, "failover", current_time, response)

send_error_rate_alert(self, rate, error_count, current_time, response) ==
  send_slack_alert(self, "error_rate", current_time, response)

\* ------------------------------------------------------- the log at LOG_FILE
\* log.path is the file now at LOG_FILE (0: none); log.files[i] is the content
\* of the i-th file created there, a sequence of pieces; log.count is the number
\* of lines written so far and log.shrinks the number of truncations.  A piece
\* is a whole line with its terminator, the head of a line (no terminator yet),
\* or the rest of a line with its terminator.
NoLog == [path |-> 0, files |-> <<>>, count |-> 0, shrinks |-> 0]
EmptyLog == [path |-> 1, files |-> << <<>> >>, count |-> 0, shrinks |-> 0]

\* LogProcessor.__init__, the reading part: pc is the statement reached, f the
\* open file (0: none) and pos its position, depth the nested tail_logs calls.
LogProcessor_init == [pc |-> "main", last_position |-> 0, f |-> 0, pos |-> 0, depth |-> 0]

\* ------------------------------------------------------------ initial states
\* The state after the module is loaded and LogProcessor() is constructed, for
\* an environment that sets the globals within the given sets.
InitGlobals(configs, modes, urls) ==
  /\ now = StartTime
  /\ MAINTENANCE_MODE \in modes
  /\ env_maintenance = MAINTENANCE_MODE
  /\ SLACK_WEBHOOK_URL \in urls
  /\ \E c \in configs : WINDOW_SIZE = c[1] /\ ERROR_RATE_THRESHOLD = c[2]
  /\ failover_detector = FailoverDetector_init
  /\ alert_handler = AlertHandler_init
  /\ calls = <<>>
  /\ observed = <<>>
  /\ events = <<>>
  /\ fired = <<>>
  /\ delivered = [k \in AlertTypes |-> <<>>]
  /\ tailer = LogProcessor_init
  /\ passed = <<>>

InitWith(configs, modes, urls) ==
  /\ InitGlobals(configs, modes, urls)
  /\ log = NoLog
  /\ error_monitor = ErrorRateMonitor_init
  /\ appended = <<>>

Init == InitWith({<<2, 50>>}, BOOLEAN, {"", Url})

\* ------------------------------------------------------------------ the clock
Tick ==
  /\ now < MaxTime
  /\ now' = now + 1
  /\ calls' = <<>>
  /\ UNCHANGED <<env_maintenance, config, objects, ghosts, tailvars>>

\* ------------------------------------------------- the methods, called directly
\* The record of one call: its arguments, the clock reading it made (t), the
\* object before and after it, what it returned, and the environment's
\* maintenance setting at the time.
DetectRecord(pool, t, pre, r) ==
  [op |-> "detect_failover", current_pool |-> pool, t |-> t, pre |-> pre,
   post |-> r.self, ret |-> r.ret, setting |-> env_maintenance]

AddRecord(status_code, upstream_status, pre, post) ==
  [op |-> "add_request", status_code |-> status_code,
   upstream_status |-> upstream_status, pre |-> pre, post |-> post]

ShouldRecord(t, pre, r) ==
  [op |-> "should_alert", t |-> t, pre |-> pre, post |-> r.self, ret |-> r.ret,
   setting |-> env_maintenance]

SendRecord(alert_type, t, response, pre, r) ==
  [op |-> "send_slack_alert", alert_type |-> alert_type, t |-> t,
   response |-> response, pre |-> pre, post |-> r.self, ret |-> r.ret,
   posted |-> r.posted, setting |-> env_maintenance]

PoolArguments == {"blue", "green", "red", ""}
StatusArguments == {200, 404, 500, 503}
UpstreamArguments == {None, "", "-", "200", "502", "timeout", "error", "502,"}

\* recorded: whether the call is added to the record of the observations
\* (observed, events), which is kept for MaxObserved calls
DetectFailoverCall(pool, recorded) ==
  /\ recorded => Len(observed) < MaxObserved
  /\ LET r == detect_failover(failover_detector, pool, now)
     IN /\ failover_detector' = r.self
        /\ calls' = <<DetectRecord(pool, now, failover_detector, r)>>
        /\ observed' = IF recorded THEN Append(observed, pool) ELSE observed
        /\ events' = IF recorded /\ r.ret[1]
                       THEN Append(events, <<Len(observed) + 1, r.ret[2], r.ret[3]>>)
                       ELSE events
  /\ UNCHANGED <<now, env_maintenance, config, error_monitor, alert_handler,
                 appended, fired, delivered, tailvars>>

\* recorded: whether the flag is added to the record of the flags (appended),
\* which is kept for MaxAppended calls
AddRequestCall(status_code, upstream_status, recorded) ==
  /\ recorded => Len(appended) < MaxAppended
  /\ LET post == add_request(error_monitor, status_code, upstream_status)
     IN /\ error_monitor' = post
        /\ calls' = <<AddRecord(status_code, upstream_status, error_monitor, post)>>
  /\ appended' = IF recorded
                   THEN Append(appended, is_error(status_code, upstream_status))
                   ELSE appended
  /\ UNCHANGED <<now, env_maintenance, config, failover_detector, alert_handler,
                 observed, events, fired, delivered, tailvars>>

ShouldAlertCall ==
  /\ LET r == should_alert(error_monitor, now)
     IN /\ error_monitor' = r.self
        /\ calls' = <<ShouldRecord(now, error_monitor, r)>>
        /\ fired' = IF r.ret THEN Append(fired, now) ELSE fired
  /\ UNCHANGED <<now, env_maintenance, config, failover_detector, alert_handler,
                 appended, observed, events, delivered, tailvars>>

SendSlackAlertCall(alert_type, response) ==
  /\ LET r == send_slack_alert(alert_handler, alert_type, now, response)
     IN /\ alert_handler' = r.self
        /\ calls' = <<SendRecord(alert_type, now, response, alert_handler, r)>>
        /\ delivered' = IF r.posted /\ response = "200"
                          THEN [delivered EXCEPT ![alert_type] = Append(@, now)]
                          ELSE delivered
  /\ UNCHANGED <<now, env_maintenance, config, failover_detector, error_monitor,
                 appended, observed, events, fired, tailvars>>

\* FailoverDetector alone
DetectorNext ==
  \/ \E pool \in PoolArguments : DetectFailoverCall(pool, TRUE)
  \/ Tick
SpecDetector == InitWith({<<2, 50>>}, BOOLEAN, {Url}) /\ [][DetectorNext]_vars

\* ErrorRateMonitor alone
MonitorNext ==
  \/ \E status_code \in StatusArguments, upstream_status \in UpstreamArguments :
       AddRequestCall(status_code, upstream_status, TRUE)
  \/ ShouldAlertCall
  \/ Tick
SpecMonitor == InitWith(SmallConfigs, BOOLEAN, {Url}) /\ [][MonitorNext]_vars

\* AlertHandler alone
HandlerNext ==
  \/ \E alert_type \in AlertTypes, response \in Responses :
       SendSlackAlertCall(alert_type, response)
  \/ Tick
SpecHandler == InitWith({<<2, 50>>}, BOOLEAN, {"", Url}) /\ [][HandlerNext]_vars

\* Every method called directly, in any order, in a process loaded with
\* MAINTENANCE_MODE=true
CallsNext ==
  \/ \E pool \in PoolArguments : DetectFailoverCall(pool, FALSE)
  \/ \E status_code \in StatusArguments, upstream_status \in UpstreamArguments :
       AddRequestCall(status_code, upstream_status, FALSE)
  \/ ShouldAlertCall
  \/ \E alert_type \in AlertTypes, response \in Responses :
       SendSlackAlertCall(alert_type, response)
  \/ Tick
SpecMaintenance == InitWith(SmallConfigs, {TRUE}, {"", Url}) /\ [][CallsNext]_vars

\* add_request called with every pair of a status code and an upstream status,
\* the values around 500 included
ClassifyStatusArguments == StatusArguments \cup {499, 501}
ClassifyUpstreamArguments == UpstreamArguments \cup {"404", "499", "500"}
ClassifyNext ==
  \E status_code \in ClassifyStatusArguments, upstream_status \in ClassifyUpstreamArguments :
    AddRequestCall(status_code, upstream_status, FALSE)
SpecClassify == InitWith(SmallConfigs, {FALSE}, {Url}) /\ [][ClassifyNext]_vars

\* ------------------------------------------------------------- LogProcessor
\* A log line, as the tokens the three regular expressions find in it:
\* pool:(\w+), release:(\w+)-, the three digits after the quoted request, and
\* upstream_status:(\S+); None or NoStatus where the expression does not match.
Line(pool_token, release_token, status_token, upstream_token) ==
  [blank |-> FALSE, pool_token |-> pool_token, release_token |-> release_token,
   status_token |-> status_token, upstream_token |-> upstream_token]

BlankLine == [blank |-> TRUE, pool_token |-> None, release_token |-> None,
              status_token |-> NoStatus, upstream_token |-> None]

Lines ==
  { BlankLine,
    Line(None, None, NoStatus, None),
    Line("blue", None, 200, "200"),
    Line("green", None, 200, "200"),
    Line("GREEN", None, 502, "502"),
    Line("blue", None, 500, "-"),
    Line("red", "green", NoStatus, "502"),
    Line(None, None, 503, None),
    Line(None, None, 0, "error") }

\* str.lower() on the tokens of the lines
lower(s) == CASE s = "GREEN" -> "green" [] s = "BLUE" -> "blue" [] OTHER -> s

extract_pool_from_line(line) ==
  IF line.pool_token # None /\ lower(line.pool_token) \in {"blue", "green"}
    THEN lower(line.pool_token)
  ELSE IF line.release_token # None /\ lower(line.release_token) \in {"blue", "green"}
    THEN lower(line.release_token)
  ELSE None

extract_status_code(line) == line.status_token

extract_upstream_status(line) == line.upstream_token

\* The clock may advance, by up to MaxDelay, between two readings made while one
\* line is processed (the notifier call alone may take up to its 10 s timeout).

\* Lines 368-373: the failover check of process_line, from clock value t.  Every
\* outcome: the detector and the handler after it, the clock after it, the calls
\* made, the successful notifier calls.
FailoverCheck(line, detector, handler, t) ==
  LET current_pool == extract_pool_from_line(line)
      r == detect_failover(detector, current_pool, t)
      detect == DetectRecord(current_pool, t, detector, r)
  IN IF current_pool = None
       THEN {[detector |-> detector, handler |-> handler, t |-> t, calls |-> <<>>,
              sent |-> <<>>]}
     ELSE IF ~(r.ret[1] /\ r.ret[2] # None /\ r.ret[2] # "" /\ r.ret[3] # None /\ r.ret[3] # "")
       THEN {[detector |-> r.self, handler |-> handler, t |-> t, calls |-> <<detect>>,
              sent |-> <<>>]}
     ELSE {LET t2 == t + d[1]
               s == send_failover_alert(handler, r.ret[2], r.ret[3], t2, response)
           IN [detector |-> r.self, handler |-> s.self,
               t |-> IF s.posted THEN t2 + d[2] ELSE t2,
               calls |-> <<detect,
                           [op |-> "send_failover_alert", from_pool |-> r.ret[2],
                            to_pool |-> r.ret[3]],
                           SendRecord("failover", t2, response, handler, s)>>,
               sent |-> IF s.ret THEN <<t2>> ELSE <<>>]
           : d \in {e \in (0..MaxDelay) \X (0..MaxDelay) : t + e[1] + e[2] <= MaxTime},
             response \in Responses}

\* a line with an upstream status counts as a request although it has no status code
ErrorRateCheck_no_status_guard(line, monitor, handler, t) ==
  LET status_code == extract_status_code(line)
      upstream_status == extract_upstream_status(line)
      added == add_request(monitor, status_code, upstream_status)
      add == AddRecord(status_code, upstream_status, monitor, added)
      r == should_alert(added, t)
      should == ShouldRecord(t, added, r)
  IN IF (status_code = NoStatus \/ status_code = 0) /\ upstream_status = None
       THEN {[monitor |-> monitor, handler |-> handler, t |-> t, calls |-> <<>>,
              fired |-> <<>>, sent |-> <<>>]}
     ELSE IF ~r.ret
       THEN {[monitor |-> r.self, handler |-> handler, t |-> t,
              calls |-> <<add, should>>, fired |-> <<>>, sent |-> <<>>]}
     ELSE {LET t2 == t + d[1]
               s == send_error_rate_alert(handler, 0, sum(r.self.request_window), t2,
                                          response)
           IN [monitor |-> r.self, handler |-> s.self,
               t |-> IF s.posted THEN t2 + d[2] ELSE t2,
               calls |-> <<add, should,
                           SendRecord("error_rate", t2, response, handler, s)>>,
               fired |-> <<t>>,
               sent |-> IF s.ret THEN <<t2>> ELSE <<>>]
           : d \in {e \in (0..MaxDelay) \X (0..MaxDelay) : t + e[1] + e[2] <= MaxTime},
             response \in Responses}

\* Lines 376-392: the error-rate check of process_line, from clock value t.
ErrorRateCheck(line, monitor, handler, t) ==
  LET status_code == extract_status_code(line)
      upstream_status == extract_upstream_status(line)
      added == add_request(monitor, status_code, upstream_status)
      add == AddRecord(status_code, upstream_status, monitor, added)
      r == should_alert(added, t)
      should == ShouldRecord(t, added, r)
  IN IF status_code = NoStatus \/ status_code = 0
       THEN {[monitor |-> monitor, handler |-> handler, t |-> t, calls |-> <<>>,
              fired |-> <<>>, sent |-> <<>>]}
     ELSE IF ~r.ret
       THEN {[monitor |-> r.self, handler |-> handler, t |-> t,
              calls |-> <<add, should>>, fired |-> <<>>, sent |-> <<>>]}
     ELSE {LET t2 == t + d[1]
               s == send_error_rate_alert(handler, 0, sum(r.self.request_window), t2,
                                          response)
           IN [monitor |-> r.self, handler |-> s.self,
               t |-> IF s.posted THEN t2 + d[2] ELSE t2,
               calls |-> <<add, should,
                           SendRecord("error_rate", t2, response, handler, s)>>,
               fired |-> <<t>>,
               sent |-> IF s.ret THEN <<t2>> ELSE <<>>]
           : d \in {e \in (0..MaxDelay) \X (0..MaxDelay) : t + e[1] + e[2] <= MaxTime},
             response \in Responses}

\* The record of a call of process_line: the fields it finds in the line, and
\* the detectors and the dispatcher before it.
LineRecord(line) ==
  [op |-> "process_line", current_pool |-> extract_pool_from_line(line),
   status_code |-> extract_status_code(line), pre |-> objects]

\* LogProcessor.process_line: what the method does to the detectors, the
\* dispatcher and the clock
process_line(line) ==
  IF line.blank
    THEN /\ calls' = <<LineRecord(line)>>
         /\ UNCHANGED <<now, env_maintenance, config, objects, ghosts>>
  ELSE \E f \in FailoverCheck(line, failover_detector, alert_handler, now) :
       \E e \in ErrorRateCheck(line, error_monitor, f.handler, f.t) :
         /\ failover_detector' = f.detector
         /\ error_monitor' = e.monitor
         /\ alert_handler' = e.handler
         /\ now' = e.t
         /\ calls' = <<LineRecord(line)>> \o f.calls \o e.calls
         /\ fired' = fired \o e.fired
         /\ delivered' = [delivered EXCEPT !["failover"] = @ \o f.sent,
                                           !["error_rate"] = @ \o e.sent]
         /\ UNCHANGED <<env_maintenance, config, appended, observed, events>>

\* process_line called directly with a line
ProcessLine(line) == process_line(line) /\ UNCHANGED tailvars

\* The operator changes the MAINTENANCE_MODE setting of the environment while
\* the process runs; the module global was read at load (line 29).
SetMaintenanceSetting ==
  /\ env_maintenance' = ~env_maintenance
  /\ calls' = <<>>
  /\ UNCHANGED <<now, config, objects, ghosts, tailvars>>

Next ==
  \/ \E line \in Lines : ProcessLine(line)
  \/ Tick
Spec == Init /\ [][Next]_vars

\* the same with the setting changing under the running process
LiveNext ==
  \/ \E line \in Lines : ProcessLine(line)
  \/ SetMaintenanceSetting
  \/ Tick
SpecLive == Init /\ [][LiveNext]_vars

\* The threshold decision on a full window, for the default configuration and
\* two others: the window has been fed WINDOW_SIZE - k successes and then k
\* errors (the feed of the spec's boundary scenarios), for every k.
Repeat(v, n) == [i \in 1..n |-> v]

InitThreshold ==
  /\ InitGlobals(ThresholdConfigs, {FALSE}, {Url})
  /\ log = NoLog
  /\ \E k \in 0..WINDOW_SIZE :
       /\ appended = Repeat(FALSE, WINDOW_SIZE - k) \o Repeat(TRUE, k)
       /\ error_monitor = [ErrorRateMonitor_init EXCEPT !.request_window = appended]

ThresholdNext ==
  \/ ShouldAlertCall
  \/ Tick
SpecThreshold == InitThreshold /\ [][ThresholdNext]_vars

\* ------------------------------------------------------ the writer of the log
\* the content of the file now at LOG_FILE
Data == IF log.path = 0 THEN <<>> ELSE log.files[log.path]

\* the last line of the log has no terminator yet
HalfWritten == Data # <<>> /\ Data[Len(Data)].part = "head"

\* no call of the watcher is made, and nothing of the watcher changes
WatcherIdle ==
  /\ calls' = <<>>
  /\ UNCHANGED <<now, env_maintenance, config, objects, ghosts, tailer, passed>>

\* the file is created at LOG_FILE, empty
CreateLog ==
  /\ log.path = 0
  /\ Len(log.files) < MaxInodes
  /\ log' = [log EXCEPT !.path = Len(log.files) + 1, !.files = Append(@, <<>>)]
  /\ WatcherIdle

\* a line is appended, by one write
WriteLine ==
  /\ log.path # 0 /\ ~HalfWritten
  /\ log.count < MaxLines
  /\ log' = [log EXCEPT !.files[log.path] = Append(@, [id |-> log.count + 1, part |-> "whole"]),
                        !.count = @ + 1]
  /\ WatcherIdle

\* the first bytes of a line are appended ...
WriteHead ==
  /\ log.path # 0 /\ ~HalfWritten
  /\ log.count < MaxLines
  /\ log' = [log EXCEPT !.files[log.path] = Append(@, [id |-> log.count + 1, part |-> "head"]),
                        !.count = @ + 1]
  /\ WatcherIdle

\* ... and then the rest of it, with the terminator
WriteRest ==
  /\ HalfWritten
  /\ log' = [log EXCEPT !.files[log.path] = Append(@, [id |-> log.count, part |-> "tail"])]
  /\ WatcherIdle

\* the file is truncated to size 0; its identity stays
Truncate ==
  /\ log.path # 0 /\ Data # <<>> /\ ~HalfWritten
  /\ log.shrinks < MaxShrinks
  /\ log' = [log EXCEPT !.files[log.path] = <<>>, !.shrinks = @ + 1]
  /\ WatcherIdle

\* the file is renamed away and a new, empty one is created at LOG_FILE
Rotate ==
  /\ log.path # 0 /\ Data # <<>> /\ ~HalfWritten
  /\ Len(log.files) < MaxInodes
  /\ log' = [log EXCEPT !.path = Len(log.files) + 1, !.files = Append(@, <<>>)]
  /\ WatcherIdle

\* ------------------------------------------------------------- the tailer
\* The lines written are all the same request, served by blue; cut in two, the
\* head holds the pool field and the rest the status fields.
TailLine == Line("blue", None, 200, "200")
TailHead == Line("blue", None, NoStatus, None)
TailRest == Line(None, None, 200, "200")

Content(piece) ==
  CASE piece.part = "whole" -> TailLine
    [] piece.part = "head" -> TailHead
    [] piece.part = "tail" -> TailRest

\* f.readline() and the iteration of f: the string read at position pos of the
\* content data, and the position after it.  The bytes up to the next
\* terminator, or up to the end of the file when there is none; nothing (the
\* empty string) at or beyond the end of the file.
NoPiece == [id |-> 0, part |-> "none"]

readline(data, pos) ==
  IF pos >= Len(data) THEN [piece |-> NoPiece, pos |-> pos]
  ELSE IF data[pos + 1].part = "head" /\ pos + 2 <= Len(data)
    THEN [piece |-> [id |-> data[pos + 1].id, part |-> "whole"], pos |-> pos + 2]
  ELSE [piece |-> data[pos + 1], pos |-> pos + 1]

\* a step of the tailer that does not call process_line
NoLineProcessed ==
  /\ calls' = <<>>
  /\ UNCHANGED <<now, env_maintenance, config, objects, ghosts, log, passed>>

\* main, lines 456-461: the check for the file (and the wait), LogProcessor()
Main ==
  /\ tailer.pc = "main"
  /\ tailer' = [tailer EXCEPT !.pc = "existing_open"]
  /\ NoLineProcessed

\* process_existing_logs, lines 400-404 and 420: the open; a failure is logged
\* and main goes on to tail_logs
ExistingOpen ==
  /\ tailer.pc = "existing_open"
  /\ tailer' = IF log.path = 0
                 THEN [tailer EXCEPT !.pc = "tail_open", !.depth = 1]
                 ELSE [tailer EXCEPT !.pc = "existing_loop", !.f = log.path, !.pos = 0]
  /\ NoLineProcessed

\* process_existing_logs, lines 407-411: one turn of the loop over the lines, or
\* its end
ExistingRead ==
  /\ tailer.pc = "existing_loop"
  /\ LET r == readline(log.files[tailer.f], tailer.pos)
     IN IF r.piece = NoPiece
          THEN /\ tailer' = [tailer EXCEPT !.pc = "tail_open", !.last_position = tailer.pos,
                                           !.f = 0, !.depth = 1]
               /\ NoLineProcessed
          ELSE /\ process_line(Content(r.piece))
               /\ tailer' = [tailer EXCEPT !.pos = r.pos]
               /\ passed' = Append(passed, r.piece)
               /\ UNCHANGED log

\* tail_logs, lines 427-435: the open and the seek
TailOpen ==
  /\ tailer.pc = "tail_open"
  /\ tailer' = IF log.path = 0
                 THEN [tailer EXCEPT !.pc = "tail_failed"]
               ELSE IF tailer.last_position > 0
                 THEN [tailer EXCEPT !.pc = "tail_loop", !.f = log.path,
                                     !.pos = tailer.last_position]
               ELSE [tailer EXCEPT !.pc = "tail_loop", !.f = log.path,
                                   !.pos = Len(Data), !.last_position = Len(Data)]
  /\ NoLineProcessed

\* tail_logs, lines 438-442: one readline
TailRead ==
  /\ tailer.pc = "tail_loop"
  /\ LET r == readline(log.files[tailer.f], tailer.pos)
     IN IF r.piece = NoPiece
          THEN /\ tailer' = [tailer EXCEPT !.pc = "tail_sleep"]
               /\ NoLineProcessed
          ELSE /\ process_line(Content(r.piece))
               /\ tailer' = [tailer EXCEPT !.pos = r.pos, !.last_position = r.pos]
               /\ passed' = Append(passed, r.piece)
               /\ UNCHANGED log

\* tail_logs, line 443
TailSleep ==
  /\ tailer.pc = "tail_sleep"
  /\ tailer' = [tailer EXCEPT !.pc = "tail_loop"]
  /\ NoLineProcessed

\* tail_logs, line 445: readline raises (an I/O error, bytes that do not decode)
TailError ==
  /\ tailer.pc = "tail_loop"
  /\ tailer' = [tailer EXCEPT !.pc = "tail_failed", !.f = 0]
  /\ NoLineProcessed

\* tail_logs, lines 446-448: the wait and the nested call of tail_logs; beyond
\* the interpreter's limit the call raises RecursionError, from inside the
\* handler, which no frame catches
TailRetry ==
  /\ tailer.pc = "tail_failed"
  /\ tailer' = IF tailer.depth < RecursionLimit
                 THEN [tailer EXCEPT !.pc = "tail_open", !.depth = @ + 1]
                 ELSE [tailer EXCEPT !.pc = "crashed"]
  /\ NoLineProcessed

InitTail ==
  /\ InitGlobals({<<2, 50>>}, {FALSE}, {Url})
  /\ error_monitor = ErrorRateMonitor_init
  /\ appended = <<>>
  /\ log \in {NoLog, EmptyLog}

TailNext ==
  \/ CreateLog \/ WriteLine \/ WriteHead \/ WriteRest \/ Truncate \/ Rotate
  \/ Main \/ ExistingOpen \/ ExistingRead
  \/ TailOpen \/ TailRead \/ TailSleep \/ TailError \/ TailRetry
SpecTail == InitTail /\ [][TailNext]_vars

\* ---------------------------------------------------------------- the claims
LastN(s, n) == SubSeq(s, Len(s) - n + 1, Len(s))
CallsOf(op) == {i \in DOMAIN calls : calls[i].op = op}

\* C1: after every add_request the window holds at most WINDOW_SIZE flags, and
\* they are, in arrival order, the min(total appended, WINDOW_SIZE) most recent
\* flags: the oldest flag is the one evicted.
C1_WindowIsMostRecent ==
  /\ Len(error_monitor.request_window) <= WINDOW_SIZE
  /\ error_monitor.request_window = LastN(appended, Min(Len(appended), WINDOW_SIZE))

\* an eviction has happened, and the evicted flag differs from the oldest kept
C1_Witness ==
  /\ CallsOf("add_request") # {}
  /\ Len(appended) > WINDOW_SIZE
  /\ appended[Len(appended) - WINDOW_SIZE] # error_monitor.request_window[1]

\* C2: once should_alert has returned true at t0, no later call made before
\* t0 + ALERT_COOLDOWN_SEC returns true: any two true returns are at least one
\* cooldown apart, whatever the window holds.
C2_NoAlertWithinCooldown ==
  \A i \in DOMAIN fired : \A j \in DOMAIN fired :
    i < j => fired[j] >= fired[i] + ALERT_COOLDOWN_SEC

\* a call within the cooldown of an earlier alert, on a full window of errors,
\* has returned false
C2_Witness ==
  /\ fired # <<>>
  /\ \E i \in CallsOf("should_alert") :
       /\ calls[i].t < fired[Len(fired)] + ALERT_COOLDOWN_SEC
       /\ ~calls[i].ret
       /\ Len(calls[i].pre.request_window) = WINDOW_SIZE
       /\ sum(calls[i].pre.request_window) = WINDOW_SIZE

\* C3: with maintenance off, a full window and the cooldown elapsed,
\* should_alert returns true exactly when
\* 100 * errors >= ERROR_RATE_THRESHOLD * WINDOW_SIZE (the boundary included).
C3_InclusiveBoundary ==
  \A i \in CallsOf("should_alert") :
    LET c == calls[i]
    IN (/\ ~MAINTENANCE_MODE
        /\ Len(c.pre.request_window) = WINDOW_SIZE
        /\ c.t - c.pre.last_alert_time >= ALERT_COOLDOWN_SEC)
       => (c.ret <=> 100 * sum(c.pre.request_window) >= ERROR_RATE_THRESHOLD * WINDOW_SIZE)

\* C3, the default configuration only (WINDOW_SIZE 200, threshold 2.0): 4 errors
\* of 200 alert and 3 do not.
C3_DefaultBoundary ==
  <<WINDOW_SIZE, ERROR_RATE_THRESHOLD>> = DefaultConfig => C3_InclusiveBoundary

\* C4 as stated: on its first valid observation (the detector not yet
\* initialized) detect_failover returns no event, sets last_pool to the pool and
\* initialized to true, and changes nothing else.
C4_FirstObservationSilent ==
  \A i \in CallsOf("detect_failover") :
    LET c == calls[i]
    IN (is_valid_pool(c.current_pool) /\ ~c.pre.initialized)
       => /\ c.ret = NoEvent
          /\ c.post = [c.pre EXCEPT !.last_pool = c.current_pool, !.initialized = TRUE]

\* C4 as amended: the same with maintenance mode off; with maintenance mode on
\* the call returns no event and sets nothing.
C4_FirstObservationSilentMaintenanceOff ==
  \A i \in CallsOf("detect_failover") :
    LET c == calls[i]
    IN (is_valid_pool(c.current_pool) /\ ~c.pre.initialized)
       => /\ c.ret = NoEvent
          /\ c.post = IF MAINTENANCE_MODE THEN c.pre
                      ELSE [c.pre EXCEPT !.last_pool = c.current_pool, !.initialized = TRUE]

C4_Witness ==
  \E i \in CallsOf("detect_failover") :
    /\ ~calls[i].pre.initialized
    /\ calls[i].current_pool = "green"
    /\ calls[i].post.initialized
    /\ failover_detector.last_pool = "green"

\* C5: an initialized detector whose cooldown has elapsed returns the event
\* (true, previous last_pool, observed pool) for a valid pool different from
\* last_pool and no event for one equal to it; the observations blue, blue, blue,
\* green yield exactly one event, blue to green, on the fourth.
C5_OneEventPerChange ==
  /\ \A i \in CallsOf("detect_failover") :
       LET c == calls[i]
       IN (/\ c.pre.initialized
           /\ is_valid_pool(c.current_pool)
           /\ c.t - c.pre.last_alert_time >= ALERT_COOLDOWN_SEC)
          => c.ret = IF c.current_pool # c.pre.last_pool
                       THEN <<TRUE, c.pre.last_pool, c.current_pool>>
                       ELSE NoEvent
  /\ (observed = <<"blue", "blue", "blue", "green">> /\ failover_detector.initialized)
       => events = << <<4, "blue", "green">> >>

C5_Witness ==
  /\ observed = <<"blue", "blue", "blue", "green">>
  /\ events = << <<4, "blue", "green">> >>
  /\ calls[1].ret = <<TRUE, "blue", "green">>

\* C6: a valid pool different from last_pool, observed less than
\* ALERT_COOLDOWN_SEC after last_alert_time, returns no event, becomes last_pool,
\* and leaves last_alert_time as it was.
C6_SuppressedChangeKeepsCooldown ==
  \A i \in CallsOf("detect_failover") :
    LET c == calls[i]
    IN (/\ is_valid_pool(c.current_pool)
        /\ c.current_pool # c.pre.last_pool
        /\ c.t - c.pre.last_alert_time < ALERT_COOLDOWN_SEC)
       => /\ c.ret = NoEvent
          /\ c.post = [c.pre EXCEPT !.last_pool = c.current_pool]

C6_Witness ==
  \E i \in CallsOf("detect_failover") :
    /\ calls[i].pre.last_alert_time > 0
    /\ calls[i].current_pool \in Pools
    /\ calls[i].current_pool # calls[i].pre.last_pool
    /\ calls[i].t - calls[i].pre.last_alert_time < ALERT_COOLDOWN_SEC
    /\ failover_detector.last_pool = calls[i].current_pool

\* C8: while MAINTENANCE_MODE is true detect_failover returns no event,
\* should_alert returns false, and send_slack_alert returns false without
\* calling the notifier, whatever the window holds and whatever pools were seen.
C8_MaintenanceSuppresses ==
  MAINTENANCE_MODE =>
    \A i \in DOMAIN calls :
      LET c == calls[i]
      IN /\ c.op = "detect_failover" => c.ret = NoEvent
         /\ c.op = "should_alert" => ~c.ret
         /\ c.op = "send_slack_alert" => ~c.posted /\ ~c.ret

\* under maintenance: the window is full of errors, and send_slack_alert is
\* called with the webhook configured
C8_Witness ==
  /\ MAINTENANCE_MODE
  /\ SLACK_WEBHOOK_URL # ""
  /\ Len(error_monitor.request_window) = WINDOW_SIZE
  /\ sum(error_monitor.request_window) = WINDOW_SIZE
  /\ CallsOf("send_slack_alert") # {}

\* C10: a send whose notifier call succeeds returns true and sets
\* last_alert_times[alert_type] to the time read by the call; one whose notifier
\* call fails (another response, an exception) returns false and leaves
\* last_alert_times as it was; so last_alert_times has an entry for a type only
\* if a send of that type has succeeded.
C10_TimestampOnSuccessOnly ==
  /\ \A i \in CallsOf("send_slack_alert") :
       LET c == calls[i]
       IN c.posted =>
            IF c.response = "200"
              THEN /\ c.ret
                   /\ c.post.last_alert_times[c.alert_type] = c.t
                   /\ \A k \in DOMAIN c.post.last_alert_times \ {c.alert_type} :
                        /\ k \in DOMAIN c.pre.last_alert_times
                        /\ c.post.last_alert_times[k] = c.pre.last_alert_times[k]
              ELSE ~c.ret /\ c.post = c.pre
  /\ \A k \in DOMAIN alert_handler.last_alert_times : delivered[k] # <<>>

\* a failed send of a type that has no entry, after a successful send of the other
C10_Witness ==
  \E i \in CallsOf("send_slack_alert") :
    /\ calls[i].posted
    /\ calls[i].response = "exception"
    /\ calls[i].alert_type = "error_rate"
    /\ DOMAIN alert_handler.last_alert_times = {"failover"}

\* C7: no failover event is returned by detect_failover, and none is passed to
\* send_failover_alert, with from_pool equal to to_pool.
C7_NoDegenerateEvent ==
  \A i \in DOMAIN calls :
    LET c == calls[i]
    IN /\ (c.op = "detect_failover" /\ c.ret[1]) => c.ret[2] # c.ret[3]
       /\ c.op = "send_failover_alert" => c.from_pool # c.to_pool

\* a line has made detect_failover return an event, which was passed on
C7_Witness ==
  /\ \E i \in CallsOf("detect_failover") : calls[i].ret = <<TRUE, "blue", "green">>
  /\ \E i \in CallsOf("send_failover_alert") :
       calls[i].from_pool = "blue" /\ calls[i].to_pool = "green"

\* C9: maintenance mode is checked live: a call made while the environment's
\* setting is true is suppressed (no event, no alert, no notifier call), and a
\* call made while it is false is not (a valid pool becomes last_pool), whatever
\* the setting was when the process started.
C9_MaintenanceCheckedLive ==
  \A i \in DOMAIN calls :
    LET c == calls[i]
    IN /\ (c.op = "detect_failover" /\ c.setting) => c.ret = NoEvent
       /\ (c.op = "should_alert" /\ c.setting) => ~c.ret
       /\ (c.op = "send_slack_alert" /\ c.setting) => ~c.posted
       /\ (c.op = "detect_failover" /\ ~c.setting /\ is_valid_pool(c.current_pool))
            => c.post.last_pool = c.current_pool

\* the sends of the given type, in the calls cs, that reached requests.post
PostsOf(cs, alert_type) ==
  {i \in DOMAIN cs : /\ cs[i].op = "send_slack_alert"
                     /\ cs[i].alert_type = alert_type
                     /\ cs[i].posted}

\* a send of the type in cs was posted and not delivered
FailedSend(cs, alert_type) ==
  \E i \in PostsOf(cs, alert_type) : cs[i].response # "200"

\* the calls cs hold a pool change seen by an initialized detector
PoolChangeIn(cs) ==
  \E i \in DOMAIN cs : /\ cs[i].op = "detect_failover"
                       /\ cs[i].pre.initialized
                       /\ is_valid_pool(cs[i].current_pool)
                       /\ cs[i].current_pool # cs[i].pre.last_pool

\* the calls cs hold an add_request that leaves a full window with the rate at
\* or above the threshold
RateReachedIn(cs) ==
  \E i \in DOMAIN cs : /\ cs[i].op = "add_request"
                       /\ Len(cs[i].post.request_window) = WINDOW_SIZE
                       /\ rate_reached(cs[i].post)

\* C11: a failed delivery does not consume the cooldown: when the line processed
\* right after a line whose notification of a type failed to be delivered (less
\* than ALERT_COOLDOWN_SEC later) meets the condition of that type again, the
\* notifier is called again for that type.
C11_FailedSendIsRetried ==
  [][/\ (FailedSend(calls, "failover") /\ PoolChangeIn(calls'))
          => PostsOf(calls', "failover") # {}
     /\ (FailedSend(calls, "error_rate") /\ RateReachedIn(calls'))
          => PostsOf(calls', "error_rate") # {}]_vars

\* the detector call that stands behind a send of the given type
DetectorOp(alert_type) ==
  IF alert_type = "failover" THEN "detect_failover" ELSE "should_alert"

\* C12: per alert type, any two delivered notifications are at least
\* ALERT_COOLDOWN_SEC apart; and the notifier is called only when the
\* dispatcher's cooldown for the type has elapsed and the detector's call for
\* the same line was made with the detector's cooldown elapsed.
C12_DeliveriesCooldownApart ==
  /\ \A k \in AlertTypes : \A i \in DOMAIN delivered[k] : \A j \in DOMAIN delivered[k] :
       i < j => delivered[k][j] >= delivered[k][i] + ALERT_COOLDOWN_SEC
  /\ \A i \in DOMAIN calls :
       (calls[i].op = "send_slack_alert" /\ calls[i].posted) =>
         /\ calls[i].alert_type \in DOMAIN calls[i].pre.last_alert_times
              => calls[i].t - calls[i].pre.last_alert_times[calls[i].alert_type]
                   >= ALERT_COOLDOWN_SEC
         /\ \E j \in CallsOf(DetectorOp(calls[i].alert_type)) :
              /\ j < i
              /\ calls[j].t - calls[j].pre.last_alert_time >= ALERT_COOLDOWN_SEC

\* a second notification of a type has been delivered, and a send whose
\* detector had fired was held back by the dispatcher's cooldown alone
C12_Witness ==
  /\ \E k \in AlertTypes : Len(delivered[k]) >= 2
  /\ \E i \in CallsOf("send_slack_alert") :
       /\ ~calls[i].posted
       /\ \E j \in CallsOf(DetectorOp(calls[i].alert_type)) :
            calls[j].t - calls[j].pre.last_alert_time >= ALERT_COOLDOWN_SEC

\* C16: ACTIVE_POOL seeds the baseline: a detector that has observed nothing yet
\* holds ACTIVE_POOL as last_pool, so a first observation of the other pool, with
\* maintenance off, is a change from ACTIVE_POOL and returns the event.
C16_ActivePoolSeedsBaseline ==
  \A i \in CallsOf("detect_failover") :
    LET c == calls[i]
    IN (~MAINTENANCE_MODE /\ ~c.pre.initialized) =>
         /\ c.pre.last_pool = ACTIVE_POOL
         /\ (is_valid_pool(c.current_pool) /\ c.current_pool # ACTIVE_POOL)
              => c.ret = <<TRUE, ACTIVE_POOL, c.current_pool>>

\* C18: should_alert on a window of fewer than WINDOW_SIZE flags returns false
\* and leaves last_alert_time as it was, even if every flag is an error.
C18_NoAlertBeforeWindowFull ==
  \A i \in CallsOf("should_alert") :
    LET c == calls[i]
    IN Len(c.pre.request_window) < WINDOW_SIZE
         => ~c.ret /\ c.post.last_alert_time = c.pre.last_alert_time

\* with maintenance off and the cooldown elapsed, a call on a window one flag
\* short of full, all of them errors
C18_Witness ==
  \E i \in CallsOf("should_alert") :
    /\ ~MAINTENANCE_MODE
    /\ Len(calls[i].pre.request_window) = WINDOW_SIZE - 1
    /\ sum(calls[i].pre.request_window) = WINDOW_SIZE - 1
    /\ calls[i].t - calls[i].pre.last_alert_time >= ALERT_COOLDOWN_SEC
    /\ ~calls[i].ret

C20_AbsentFieldNoOp ==
  \A i \in CallsOf("process_line") :
    LET c == calls[i]
    IN /\ c.status_code = NoStatus => error_monitor = c.pre[2]
       /\ c.current_pool = None => failover_detector = c.pre[1]
       /\ (c.status_code = NoStatus /\ c.current_pool = None) => objects = c.pre

\* a line with a pool and no status code has been processed (detect_failover
\* called, add_request not) on a window that already holds flags
C20_Witness ==
  /\ \E i \in CallsOf("process_line") :
       calls[i].status_code = NoStatus /\ calls[i].current_pool = "green"
  /\ CallsOf("detect_failover") # {}
  /\ CallsOf("add_request") = {}
  /\ failover_detector.last_pool = "green"
  /\ error_monitor.request_window # <<>>

\* C13: the tailer never processes a half-written line: every string passed to
\* process_line, by process_existing_logs or by tail_logs, is a whole line, up to
\* and with a terminator that is in the file.
C13_OnlyWholeLinesProcessed ==
  \A i \in DOMAIN passed : passed[i].part = "whole"

\* the tailer's file is no longer the log, or is smaller than the read cursor
Stale ==
  /\ tailer.f # 0
  /\ tailer.f # log.path \/ tailer.pos > Len(log.files[tailer.f])

\* the lines of the log that have their terminator
CompleteLines == {Data[i].id : i \in {j \in DOMAIN Data : Data[j].part \in {"whole", "tail"}}}

\* the lines passed to process_line, whole or in parts
PassedLines == {passed[i].id : i \in DOMAIN passed}

\* tail_logs finds nothing to read and goes to wait (line 443)
GoesToWait == tailer.pc = "tail_loop" /\ tailer'.pc = "tail_sleep"

\* C14: a truncated or rotated log is detected and read again from offset 0:
\* when the tailer finds nothing to read while its file is smaller than the
\* cursor or is no longer the file at LOG_FILE, it does not go to wait leaving
\* complete lines of the log unprocessed.
C14_TruncationDetected ==
  [][(GoesToWait /\ Stale) => CompleteLines \subseteq PassedLines]_vars

\* the log has been neither truncated nor rotated and holds whole lines only
PlainLog ==
  /\ log.shrinks = 0
  /\ Len(log.files) <= 1
  /\ \A i \in DOMAIN Data : Data[i].part = "whole"

\* C15: every line is passed to process_line exactly once and in file order:
\* on a log of lines 1, 2, ... written whole and never truncated or rotated,
\* the lines passed are always 1, 2, ... with none skipped or repeated, and the
\* tailer goes to wait only when every line of the log has been passed;
\* whether the file was there at startup or not, and across restarts of
\* tail_logs.
C15_EachLineOnceInOrder ==
  [][PlainLog' =>
       /\ \A i \in DOMAIN passed' : passed'[i].id = i
       /\ GoesToWait => Len(passed) = Len(Data)]_vars

\* C17: failures while tailing never end the process: whatever the number of
\* failed attempts (the file missing, readline raising), the tailer waits and
\* tries again.
C17_TailerNeverCrashes ==
  tailer.pc # "crashed"

\* the flag an add_request call appended: the newest of the window after it
AppendedFlag(c) == c.post.request_window[Len(c.post.request_window)]

\* the upstream_status arguments that are integers of 500 or more
UpstreamCodesFrom500 == {"500", "502"}

\* C21: the flag add_request appends is true exactly when status_code >= 500, or
\* upstream_status is an integer >= 500, or upstream_status is timeout or error;
\* with a status code below 500, an upstream_status of "-" or none at all gives
\* a false flag.
C21_ErrorClassification ==
  \A i \in CallsOf("add_request") :
    LET c == calls[i]
    IN /\ AppendedFlag(c) <=> \/ c.status_code >= 500
                              \/ c.upstream_status \in UpstreamCodesFrom500
                              \/ c.upstream_status \in {"timeout", "error"}
       /\ (c.status_code < 500 /\ c.upstream_status \in {"-", None, ""})
            => ~AppendedFlag(c)

\* a request with status 200 and upstream status 500 has been flagged an error,
\* after a request that was not
C21_Witness ==
  \E i \in CallsOf("add_request") :
    /\ calls[i].status_code = 200
    /\ calls[i].upstream_status = "500"
    /\ AppendedFlag(calls[i])
    /\ Len(calls[i].pre.request_window) > 0
    /\ ~calls[i].pre.request_window[Len(calls[i].pre.request_window)]

\* the dict d has the same entry, or none, for key k as the dict e
SameEntry(d, e, k) ==
  /\ k \in DOMAIN d <=> k \in DOMAIN e
  /\ k \in DOMAIN d => d[k] = e[k]

\* C22: cooldowns are kept per alert type.  A send of one type, delivered,
\* suppressed or failed, leaves the dispatcher's timestamp of the other type as
\* it was; within a line the failover part leaves the error monitor's
\* last_alert_time alone and the error-rate part the failover detector's; and a
\* send is held back by the dispatcher's cooldown only when a notification of its
\* own type was delivered less than ALERT_COOLDOWN_SEC before.
C22_CooldownsPerType ==
  /\ \A i \in CallsOf("send_slack_alert") : \A k \in AlertTypes \ {calls[i].alert_type} :
       SameEntry(calls[i].post.last_alert_times, calls[i].pre.last_alert_times, k)
  /\ \A i \in CallsOf("process_line") :
       /\ \A j \in CallsOf("add_request") :
            calls[j].pre.last_alert_time = calls[i].pre[2].last_alert_time
       /\ \A j \in CallsOf("detect_failover") :
            failover_detector.last_alert_time = calls[j].post.last_alert_time
       /\ CallsOf("detect_failover") = {}
            => failover_detector.last_alert_time = calls[i].pre[1].last_alert_time
       /\ CallsOf("should_alert") = {}
            => error_monitor.last_alert_time = calls[i].pre[2].last_alert_time
  /\ \A i \in CallsOf("send_slack_alert") :
       (SLACK_WEBHOOK_URL # "" /\ ~MAINTENANCE_MODE /\ ~calls[i].posted) =>
         \E n \in DOMAIN delivered[calls[i].alert_type] :
           /\ delivered[calls[i].alert_type][n] <= calls[i].t
           /\ calls[i].t - delivered[calls[i].alert_type][n] < ALERT_COOLDOWN_SEC

\* an error-rate notification is delivered less than ALERT_COOLDOWN_SEC after a
\* failover notification was, the dispatcher holding both timestamps
C22_Witness ==
  \E i \in CallsOf("send_slack_alert") :
    /\ calls[i].alert_type = "error_rate"
    /\ calls[i].ret
    /\ "failover" \in DOMAIN calls[i].pre.last_alert_times
    /\ calls[i].t - calls[i].pre.last_alert_times["failover"] < ALERT_COOLDOWN_SEC
    /\ calls[i].post.last_alert_times["failover"] = calls[i].pre.last_alert_times["failover"]

\* the detector's call c returned an event
Emitted(c) == IF c.op = "detect_failover" THEN c.ret[1] ELSE c.ret

\* C23: the two cooldown layers never disagree to the detriment of an alert.
\* With the webhook configured and maintenance off, whenever detect_failover or
\* should_alert returns an event, the dispatcher's cooldown check for that type
\* passes in the send that follows, so the notifier is called, whatever time
\* passes between the detector's reading of the clock and the dispatcher's.
C23_LayersAgree ==
  (SLACK_WEBHOOK_URL # "" /\ ~MAINTENANCE_MODE) =>
    \A k \in AlertTypes : \A j \in CallsOf(DetectorOp(k)) :
      Emitted(calls[j]) =>
        \E i \in CallsOf("send_slack_alert") :
          /\ i > j
          /\ calls[i].alert_type = k
          /\ calls[i].posted

\* the most recent valid pool among the first n observed pools, None if none
LastValidPool(n) ==
  LET valid == {i \in 1..n : is_valid_pool(observed[i])}
  IN IF valid = {} THEN None
     ELSE observed[CHOOSE i \in valid : \A j \in valid : j <= i]

\* C24: with maintenance mode off, after every detect_failover call with a valid
\* pool last_pool is the pool of that call, whether the call returned an event,
\* was suppressed by the cooldown or set the baseline; an initialized detector's
\* last_pool is the most recently observed valid pool; and every event has from
\* equal to the valid pool observed immediately before and to equal to the pool
\* of its call.
C24_LastPoolIsMostRecentValid ==
  ~MAINTENANCE_MODE =>
    /\ \A i \in CallsOf("detect_failover") :
         is_valid_pool(calls[i].current_pool) => calls[i].post.last_pool = calls[i].current_pool
    /\ failover_detector.initialized <=> LastValidPool(Len(observed)) # None
    /\ failover_detector.initialized
         => failover_detector.last_pool = LastValidPool(Len(observed))
    /\ \A e \in DOMAIN events :
         /\ events[e][3] = observed[events[e][1]]
         /\ events[e][2] = LastValidPool(events[e][1] - 1)
         /\ events[e][2] # None

\* an event has been returned earlier, and the call just made is a change held
\* back by the cooldown that follows an invalid pool: last_pool moved to it
C24_Witness ==
  /\ ~MAINTENANCE_MODE
  /\ events # <<>>
  /\ Len(observed) >= 2
  /\ ~is_valid_pool(observed[Len(observed) - 1])
  /\ \E i \in CallsOf("detect_failover") :
       /\ calls[i].pre.initialized
       /\ is_valid_pool(calls[i].current_pool)
       /\ calls[i].pre.last_pool # calls[i].current_pool
       /\ ~calls[i].ret[1]
       /\ calls[i].post.last_pool = calls[i].current_pool

====
